---- MODULE Spec2Model ----
(***************************************************************************)
(* Model of main.py of OPTIONSmagicAI-bot: the three command handlers      *)
(* (start, ask, alert), the rate_limited decorator with its process-wide   *)
(* table user_last_ask, and split_message.                                 *)
(*                                                                         *)
(* Handlers are coroutines run by one event loop.  A coroutine runs        *)
(* without interruption up to its next awaited reply send; awaiting the    *)
(* wrapped coroutine (line 42) does not suspend, and openai's and          *)
(* gspread's calls are plain blocking calls.  One action of the model is   *)
(* therefore one such run-to-suspension segment of one invocation.         *)
(* datetime.now() is an input of the segment that reads it: successive     *)
(* readings are arbitrary, so the clock may stand still or go backward.    *)
(***************************************************************************)
EXTENDS Integers, Sequences, FiniteSets, TLC

\* ---------------------------------------------------------------- bounds
NumTasks == 2            \* invocations that may be in flight at once
MaxAnswerChunks == 2     \* longest completion answer, in chunks of MAX_LEN
MaxTextLen == 4          \* longest text given to split_message on its own
MaxLenArg == 5           \* max_len given to split_message: -MaxLenArg..MaxLenArg

\* ------------------------------------------------------- program constants
ASK_INTERVAL == 30       \* main.py:31
MAX_LEN == 4096          \* main.py:46, default of max_len
DEFAULT_LAST == 0        \* main.py:30, defaultdict(lambda: 0)
NUM_ROWS == 3            \* main.py:80-84, the three records of data

Users == {"u1", "u2"}
Tasks == 1..NumTasks

\* Readings of datetime.now().timestamp() the model draws from: an instant
\* below the interval, and t0, t0+10, t0+31, t0+31+29 for t0 = ASK_INTERVAL.
Instants == {29, 30, 40, 61, 90}

\* context.args as the transport delivers it: the words after the command.
ArgLists == {<< >>, <<"What", "is", "BANKNIFTY">>}

\* Lengths of the texts the completion service may return.
AnswerLens == {k * MAX_LEN : k \in 0..(MaxAnswerChunks - 1)}
                     \cup {(MaxAnswerChunks - 1) * MAX_LEN + 1}

\* The text of length n the completion service returns (position-dependent
\* characters, so that chunks are distinguishable).
AnswerText(n) == [i \in 1..n |-> i % 7]

\* Texts and max_len values for split_message called on its own.
Texts == UNION {[1..n -> {"a", "b"}] : n \in 0..MaxTextLen}

LenArgs == (0 - MaxLenArg)..MaxLenArg

\* user_last_ask: the table of line 30.  tasks: the handler invocations.
\* call: one call of split_message(text, max_len), with what it gave.
VARIABLES user_last_ask, tasks, call

vars == <<user_last_ask, tasks, call>>

\* ------------------------------------------------------------ pure helpers

\* ' '.join(args)
RECURSIVE join(_)
join(args) ==
    IF Len(args) = 0 THEN ""
    ELSE IF Len(args) = 1 THEN args[1]
    ELSE args[1] \o " " \o join(Tail(args))

\* Variants of range: the last, partial step is left out; one step too many.
range_floor(n, step) == [k \in 1..(n \div step) |-> (k - 1) * step]

range_extra(n, step) == [k \in 1..((n \div step) + 1) |-> (k - 1) * step]

\* range(0, n, step) for step > 0, as the sequence of its values
range(n, step) == [k \in 1..((n + step - 1) \div step) |-> (k - 1) * step]

\* text[i:i+max_len] (0-based i, i < len(text), max_len > 0)
slice(text, i, max_len) ==
    SubSeq(text, i + 1, IF i + max_len < Len(text) THEN i + max_len ELSE Len(text))

\* split_message(text, max_len): a list, or ValueError when range() gets a
\* zero step; a negative step gives the empty range.
split_message(text, max_len) ==
    IF max_len = 0 THEN [error |-> "ValueError", chunks |-> << >>]
    ELSE IF max_len < 0 THEN [error |-> "none", chunks |-> << >>]
    ELSE [error |-> "none",
          chunks |-> [k \in 1..Len(range(Len(text), max_len)) |->
                         slice(text, range(Len(text), max_len)[k], max_len)]]

\* split_message(answer_content) of line 74, for each answer length.
Parts == [n \in AnswerLens |-> split_message(AnswerText(n), MAX_LEN).chunks]

\* Number of parts split_message(answer) yields for each answer length.
NumParts == [n \in AnswerLens |-> Len(split_message(AnswerText(n), MAX_LEN).chunks)]

\* user_last_ask[user_id] on a defaultdict: a missing key is inserted with
\* the default before its value is returned.
getitem(tbl, u) ==
    IF u \in DOMAIN tbl THEN tbl ELSE [k \in DOMAIN tbl \cup {u} |->
                                         IF k = u THEN DEFAULT_LAST ELSE tbl[k]]

\* Variants of rate_limit with one slip each: the comparison off by one,
\* the timestamp not recorded, the timestamp recorded on denial, the
\* distance taken in absolute value, every entry written on admission.
rate_limit_le(tbl, u, now) ==
    LET t1 == getitem(tbl, u)
    IN  IF now - t1[u] <= ASK_INTERVAL
        THEN [admit |-> FALSE, table |-> t1]
        ELSE [admit |-> TRUE, table |-> [t1 EXCEPT ![u] = now]]

rate_limit_norecord(tbl, u, now) ==
    LET t1 == getitem(tbl, u)
    IN  [admit |-> ~(now - t1[u] < ASK_INTERVAL), table |-> t1]

rate_limit_reset(tbl, u, now) ==
    LET t1 == getitem(tbl, u)
    IN  [admit |-> ~(now - t1[u] < ASK_INTERVAL), table |-> [t1 EXCEPT ![u] = now]]

rate_limit_abs(tbl, u, now) ==
    LET t1 == getitem(tbl, u)
        d == IF now < t1[u] THEN t1[u] - now ELSE now - t1[u]
    IN  IF d < ASK_INTERVAL
        THEN [admit |-> FALSE, table |-> t1]
        ELSE [admit |-> TRUE, table |-> [t1 EXCEPT ![u] = now]]

rate_limit_global(tbl, u, now) ==
    LET t1 == getitem(tbl, u)
    IN  IF now - t1[u] < ASK_INTERVAL
        THEN [admit |-> FALSE, table |-> t1]
        ELSE [admit |-> TRUE, table |-> [k \in DOMAIN t1 |-> now]]

\* Variant of rate_limit: the window is one unit short.
rate_limit_early(tbl, u, now) ==
    LET t1 == getitem(tbl, u)
    IN  IF now - t1[u] + 1 < ASK_INTERVAL
        THEN [admit |-> FALSE, table |-> t1]
        ELSE [admit |-> TRUE, table |-> [t1 EXCEPT ![u] = now]]

\* Lines 36-41 of wrapper: the admission decision and the table after it.
rate_limit(tbl, u, now) ==
    LET t1 == getitem(tbl, u)
    IN  IF now - t1[u] < ASK_INTERVAL
        THEN [admit |-> FALSE, table |-> t1]
        ELSE [admit |-> TRUE, table |-> [t1 EXCEPT ![u] = now]]

\* ------------------------------------------------------------ invocations

Msg(kind, part) == [kind |-> kind, part |-> part]

Idle == [cmd |-> "none", user |-> "none", now |-> 0, admitted |-> FALSE,
         query |-> "", calls |-> 0, completion |-> "none", answer |-> 0,
         sends |-> << >>, rows |-> << >>, failed |-> {}, error |-> "none",
         pc |-> "idle"]

\* A slot whose invocation has returned (or was never used) is free; a new
\* invocation takes the first free slot.
Free(t) == tasks[t].pc \in {"idle", "done", "raised"}

FirstFree(t) == Free(t) /\ \A s \in 1..(t - 1) : ~Free(s)

\* A resumed handler returns (pc "done"), or the exception of the awaited
\* send leaves it (pc "raised", error "reply"): the suspended frame, with
\* its local now, is gone; the record keeps what the invocation did.
finish(task, ok) ==
    [task EXCEPT !.pc = IF ok THEN "done" ELSE "raised",
                 !.error = IF ok THEN "none" ELSE "reply", !.now = 0]

\* An invocation as the transport hands it to a handler.
Invocation(cmd, u) == [Idle EXCEPT !.cmd = cmd, !.user = u, !.pc = "running"]

\* Variant of denied: the request is dropped without a reply.
denied_silent(inv) == [inv EXCEPT !.admitted = FALSE, !.pc = "done"]

\* wrapper, denial branch (lines 39-40): the reply is sent and awaited; the
\* wrapped handler is not called.
denied(inv) ==
    [inv EXCEPT !.admitted = FALSE, !.sends = <<Msg("too_quickly", 0)>>,
                !.pc = "deny_reply"]

\* The answer of a successful completion goes out part by part (lines
\* 74-75): the first part is sent, or there is none and ask returns within
\* the segment that read now.
answered(a, n) ==
    LET b == [a EXCEPT !.calls = 1, !.completion = "ok", !.answer = n]
    IN  IF NumParts[n] = 0 THEN [b EXCEPT !.pc = "done"]
        ELSE [b EXCEPT !.sends = <<Msg("part", 1)>>, !.pc = "part_reply"]

\* Variants of ask: the empty-query check is missing; the completion call
\* is not guarded by try/except.
ask_nocheck(inv, args, comp) ==
    LET a == [inv EXCEPT !.admitted = TRUE, !.query = join(args)]
    IN  IF ~comp.ok
        THEN [a EXCEPT !.calls = 1, !.completion = "failed",
                       !.sends = <<Msg("retry_later", 0)>>, !.pc = "retry_reply"]
        ELSE answered(a, comp.len)

ask_noexcept(inv, args, comp) ==
    LET a == [inv EXCEPT !.admitted = TRUE, !.query = join(args)]
    IN  IF a.query = ""
        THEN [a EXCEPT !.sends = <<Msg("usage", 0)>>, !.pc = "usage_reply"]
        ELSE IF ~comp.ok
        THEN [a EXCEPT !.calls = 1, !.completion = "failed",
                       !.error = "completion", !.pc = "raised"]
        ELSE answered(a, comp.len)

\* ask up to its first suspension (lines 58-75).  comp is what the
\* completion call does if it is made: it raises (ok FALSE) or returns a
\* text of length len.
ask(inv, args, comp) ==
    LET a == [inv EXCEPT !.admitted = TRUE, !.query = join(args)]
    IN  IF a.query = ""
        THEN [a EXCEPT !.sends = <<Msg("usage", 0)>>, !.pc = "usage_reply"]
        ELSE IF ~comp.ok
        THEN [a EXCEPT !.calls = 1, !.completion = "failed",
                       !.sends = <<Msg("retry_later", 0)>>, !.pc = "retry_reply"]
        ELSE answered(a, comp.len)

\* What openai.ChatCompletion.create may do when ask calls it: raise, or
\* return a text.  With an empty query ask never reaches the call, and one
\* outcome stands for all.
Raises == [ok |-> FALSE, len |-> 0]

CompletionOutcomes(args) ==
    IF join(args) = "" THEN {Raises}
    ELSE {Raises} \cup {[ok |-> TRUE, len |-> n] : n \in AnswerLens}

\* ---------------------------------------------------------------- actions

\* No call of split_message on its own.
NoSplit == [text |-> << >>, max_len |-> MAX_LEN, pc |-> "none",
            error |-> "none", chunks |-> << >>]

Init ==
    /\ user_last_ask = << >>
    /\ tasks = [t \in Tasks |-> Idle]
    /\ call = NoSplit

\* Variant of Wrapper: the timestamp is recorded only for a request that
\* passes the empty-query check.
Wrapper_validate_first(t) ==
    /\ FirstFree(t)
    /\ \E u \in Users, now \in Instants :
         LET inv == [Invocation("ask", u) EXCEPT !.now = now]
             r == rate_limit(user_last_ask, u, now)
         IN  IF r.admit
             THEN \E args \in ArgLists : \E comp \in CompletionOutcomes(args) :
                     /\ tasks' = [tasks EXCEPT ![t] = ask(inv, args, comp)]
                     /\ user_last_ask' = IF join(args) = ""
                                         THEN getitem(user_last_ask, u)
                                         ELSE r.table
             ELSE /\ tasks' = [tasks EXCEPT ![t] = denied(inv)]
                  /\ user_last_ask' = r.table
    /\ UNCHANGED call

\* /ask: wrapper (lines 35-42) and, on admission, ask up to its first await.
Wrapper(t) ==
    /\ FirstFree(t)
    /\ \E u \in Users, now \in Instants :
         LET inv == [Invocation("ask", u) EXCEPT !.now = now]
             r == rate_limit(user_last_ask, u, now)
         IN  /\ user_last_ask' = r.table
             /\ IF r.admit
                THEN \E args \in ArgLists : \E comp \in CompletionOutcomes(args) :
                        tasks' = [tasks EXCEPT ![t] = ask(inv, args, comp)]
                ELSE tasks' = [tasks EXCEPT ![t] = denied(inv)]
    /\ UNCHANGED call

\* wrapper and ask resumed when the awaited reply send returns (ok) or raises
\* (lines 39-40, 60-61, 71-72, 74-75).  Nothing here catches a failed send.
ask_resume(task, ok) ==
    IF ~ok THEN finish(task, FALSE)
    ELSE IF task.pc = "part_reply" /\ Len(task.sends) < NumParts[task.answer]
    THEN [task EXCEPT !.sends = Append(@, Msg("part", Len(task.sends) + 1))]
    ELSE finish(task, TRUE)

AskResume(t) ==
    /\ tasks[t].pc \in {"deny_reply", "usage_reply", "retry_reply", "part_reply"}
    /\ \E ok \in BOOLEAN : tasks' = [tasks EXCEPT ![t] = ask_resume(@, ok)]
    /\ UNCHANGED <<user_last_ask, call>>

\* start (lines 51-54): one reply, no try.
start(inv) == [inv EXCEPT !.sends = <<Msg("welcome", 0)>>, !.pc = "start_reply"]

start_resume(task, ok) == finish(task, ok)

Start(t) ==
    /\ FirstFree(t)
    /\ \E u \in Users : tasks' = [tasks EXCEPT ![t] = start(Invocation("start", u))]
    /\ UNCHANGED <<user_last_ask, call>>

StartResume(t) ==
    /\ tasks[t].pc = "start_reply"
    /\ \E ok \in BOOLEAN : tasks' = [tasks EXCEPT ![t] = start_resume(@, ok)]
    /\ UNCHANGED <<user_last_ask, call>>

\* Variant of log_rows: the first append that raises ends the loop.
RECURSIVE log_rows_abort(_, _, _)
log_rows_abort(i, fails, task) ==
    IF i > NUM_ROWS THEN task
    ELSE IF i \in fails
    THEN [task EXCEPT !.rows = Append(@, i), !.failed = @ \cup {i}]
    ELSE log_rows_abort(i + 1, fails, [task EXCEPT !.rows = Append(@, i)])

\* The loop of lines 93-97: row i is appended; an append that raises is
\* logged and the loop goes on.  fails is the set of rows whose append raises.
RECURSIVE log_rows(_, _, _)
log_rows(i, fails, task) ==
    IF i > NUM_ROWS THEN task
    ELSE log_rows(i + 1, fails,
                  [task EXCEPT !.rows = Append(@, i),
                               !.failed = IF i \in fails THEN @ \cup {i} ELSE @])

\* alert up to its first await (lines 78-90): the message is built and sent.
alert(inv) == [inv EXCEPT !.sends = <<Msg("alert", 0)>>, !.pc = "alert_reply"]

\* Variant of alert_resume: the appends are not guarded one by one, so the
\* first one that raises reaches the outer handler, which replies.
alert_resume_resurface(task, ok, fails) ==
    IF task.pc = "alert_reply"
    THEN IF ok /\ fails = {} THEN finish(log_rows(1, fails, task), TRUE)
         ELSE [(IF ok THEN log_rows_abort(1, fails, task) ELSE task)
                  EXCEPT !.sends = Append(@, Msg("internal_error", 0)),
                         !.pc = "error_reply"]
    ELSE finish(task, ok)

\* alert resumed: after reply_markdown (line 90) the rows are appended
\* (lines 92-97) or, when the send raised, the outer handler replies
\* (lines 99-101); after that reply the handler returns or the failure of
\* the reply leaves it.
alert_resume(task, ok, fails) ==
    IF task.pc = "alert_reply"
    THEN IF ok THEN finish(log_rows(1, fails, task), TRUE)
         ELSE [task EXCEPT !.sends = Append(@, Msg("internal_error", 0)),
                           !.pc = "error_reply"]
    ELSE finish(task, ok)

Alert(t) ==
    /\ FirstFree(t)
    /\ \E u \in Users : tasks' = [tasks EXCEPT ![t] = alert(Invocation("alert", u))]
    /\ UNCHANGED <<user_last_ask, call>>

AlertResume(t) ==
    /\ tasks[t].pc \in {"alert_reply", "error_reply"}
    /\ \E ok \in BOOLEAN :
         \E fails \in IF ok /\ tasks[t].pc = "alert_reply"
                       THEN SUBSET (1..NUM_ROWS) ELSE {{}} :
            tasks' = [tasks EXCEPT ![t] = alert_resume(@, ok, fails)]
    /\ UNCHANGED <<user_last_ask, call>>

Next ==
    \/ \E t \in Tasks : Wrapper(t)
    \/ \E t \in Tasks : AskResume(t)
    \/ \E t \in Tasks : Start(t)
    \/ \E t \in Tasks : StartResume(t)
    \/ \E t \in Tasks : Alert(t)
    \/ \E t \in Tasks : AlertResume(t)

Spec == Init /\ [][Next]_vars

\* ------------------------------------------- split_message on its own

\* split_message is about to be called with a text and a max_len.
InitSplit ==
    /\ user_last_ask = << >>
    /\ tasks = [t \in Tasks |-> Idle]
    /\ \E s \in Texts, m \in LenArgs :
          call = [NoSplit EXCEPT !.text = s, !.max_len = m, !.pc = "called"]

\* The call returns its list, or raises.
SplitMessage ==
    /\ call.pc = "called"
    /\ LET r == split_message(call.text, call.max_len)
       IN  call' = [call EXCEPT !.pc = IF r.error = "none" THEN "returned" ELSE "raised",
                                !.error = r.error, !.chunks = r.chunks]
    /\ UNCHANGED <<user_last_ask, tasks>>

NextSplit == SplitMessage

SplitSpec == InitSplit /\ [][NextSplit]_vars

\* ------------------------------------------------------------ the claims

InFlight(t) == ~Free(t)

\* The step hands a new invocation to slot t (its first segment runs).
Dispatched(t) == Free(t) /\ tasks'[t] # tasks[t]

AskDispatched(t) == Dispatched(t) /\ tasks'[t].cmd = "ask"

\* The timestamp a lookup of u finds in tbl.
last_of(tbl, u) == IF u \in DOMAIN tbl THEN tbl[u] ELSE DEFAULT_LAST

Sent(kind) == <<Msg(kind, 0)>>

\* C1: a /ask of a user who has a recorded timestamp last, arriving at now,
\* is admitted iff now - last >= 30, and on admission the user's entry is
\* now at the end of the very segment in which the wrapped handler starts.
C1_AdmitIffIntervalElapsed ==
    [][\A t \in Tasks :
         (AskDispatched(t) /\ tasks'[t].user \in DOMAIN user_last_ask) =>
            LET u == tasks'[t].user
                now == tasks'[t].now
            IN  /\ tasks'[t].admitted <=> (now - user_last_ask[u] >= ASK_INTERVAL)
                /\ tasks'[t].admitted => user_last_ask'[u] = now]_vars

\* C1 witness: t0+10 was denied and is still being answered while t0+31 is
\* admitted and recorded (t0 = 30).
C1_Witness ==
    \E s, t \in Tasks :
        /\ tasks[s].cmd = "ask" /\ tasks[t].cmd = "ask"
        /\ tasks[s].user = tasks[t].user
        /\ ~tasks[s].admitted /\ tasks[s].now = 40
        /\ tasks[t].admitted /\ tasks[t].now = 61
        /\ user_last_ask[tasks[t].user] = 61

\* C2 (as claimed): the first /ask of a user with no entry in the table is
\* admitted whatever the clock reads.
C2_FirstRequestAlwaysAdmitted ==
    [][\A t \in Tasks :
         (AskDispatched(t) /\ tasks'[t].user \notin DOMAIN user_last_ask) =>
            tasks'[t].admitted]_vars

\* Two invocations of /ask by the same user, both suspended, that read the
\* same instant.
SameInstant(s, t) ==
    /\ s # t /\ InFlight(s) /\ InFlight(t)
    /\ tasks[s].cmd = "ask" /\ tasks[t].cmd = "ask"
    /\ tasks[s].user = tasks[t].user
    /\ tasks[s].now = tasks[t].now

\* C3 (as claimed): of two concurrent /ask of one user that read the same
\* instant, exactly one is admitted.
C3_ExactlyOneAdmitted ==
    \A s, t \in Tasks : SameInstant(s, t) => (tasks[s].admitted # tasks[t].admitted)

\* C3 (amended): of two concurrent /ask of one user that read the same
\* instant, at most one is admitted, and none is admitted only when fewer
\* than 30 units separate that instant from the user's stored timestamp.
C3_AtMostOneAdmitted ==
    \A s, t \in Tasks : SameInstant(s, t) =>
        /\ ~(tasks[s].admitted /\ tasks[t].admitted)
        /\ (~tasks[s].admitted /\ ~tasks[t].admitted) =>
              /\ tasks[s].user \in DOMAIN user_last_ask
              /\ tasks[s].now - user_last_ask[tasks[s].user] < ASK_INTERVAL

C3_Witness ==
    \E s, t \in Tasks :
        SameInstant(s, t) /\ tasks[s].admitted /\ ~tasks[t].admitted

\* C4: a denied /ask changes no stored timestamp: every entry keeps its
\* value, and the only entry that may appear is the default the lookup
\* itself inserts for the requesting user.
C4_DenialLeavesTable ==
    [][\A t \in Tasks :
         (AskDispatched(t) /\ ~tasks'[t].admitted) =>
            /\ \A u \in DOMAIN user_last_ask :
                  u \in DOMAIN user_last_ask' /\ user_last_ask'[u] = user_last_ask[u]
            /\ \A u \in Users :
                  last_of(user_last_ask', u) = last_of(user_last_ask, u)
            /\ DOMAIN user_last_ask' \subseteq DOMAIN user_last_ask \cup {tasks'[t].user}]_vars

\* C4 witness: a request denied against the timestamp an earlier admitted
\* request recorded, which still stands.
C4_Witness ==
    \E t \in Tasks :
        /\ tasks[t].cmd = "ask" /\ InFlight(t) /\ ~tasks[t].admitted
        /\ user_last_ask[tasks[t].user] \in Instants
        /\ user_last_ask[tasks[t].user] # tasks[t].now

\* C5: the timestamps recorded for a user never decrease, whatever the
\* successive clock readings are.
C5_TimestampsMonotone ==
    [][\A u \in DOMAIN user_last_ask :
         u \in DOMAIN user_last_ask' /\ user_last_ask'[u] >= user_last_ask[u]]_vars

\* C5 witness: a reading that lies before the recorded timestamp (the clock
\* went backward) has been handled.
C5_Witness ==
    \E t \in Tasks :
        /\ tasks[t].cmd = "ask" /\ InFlight(t)
        /\ user_last_ask[tasks[t].user] \in Instants
        /\ tasks[t].now < user_last_ask[tasks[t].user]

DeniedRepliesOnce(tk) ==
    \A t \in Tasks :
        tk[t].cmd = "ask" =>
            IF tk[t].admitted
            THEN \A i \in 1..Len(tk[t].sends) :
                    tk[t].sends[i].kind \in {"usage", "retry_later", "part"}
            ELSE /\ tk[t].sends = Sent("too_quickly")
                 /\ tk[t].calls = 0
                 /\ tk[t].completion = "none"
                 /\ tk[t].query = ""
                 /\ tk[t].pc \in {"deny_reply", "done", "raised"}

\* C7: a denied /ask never enters ask (no completion call, no query read,
\* no reply of ask), writes no timestamp, and sends exactly the one
\* too-quickly reply, from its denial up to and including its end; whatever
\* ask does is done for an admitted invocation.
C7_DeniedRepliesOnce ==
    [][/\ DeniedRepliesOnce(tasks')
       /\ \A t \in Tasks :
             (AskDispatched(t) /\ ~tasks'[t].admitted) =>
                \A u \in Users :
                   last_of(user_last_ask', u) = last_of(user_last_ask, u)]_vars

C7_Witness ==
    \E t \in Tasks :
        /\ tasks[t].cmd = "ask" /\ ~tasks[t].admitted /\ tasks[t].pc = "done"
        /\ tasks[t].sends = Sent("too_quickly")

\* C8: an admitted /ask whose arguments join to the empty query makes no
\* completion call and sends exactly the one usage reply.
C8_EmptyQueryUsage ==
    \A t \in Tasks :
        (tasks[t].cmd = "ask" /\ tasks[t].admitted /\ tasks[t].query = "") =>
            /\ tasks[t].calls = 0
            /\ tasks[t].completion = "none"
            /\ tasks[t].sends = Sent("usage")

C8_Witness ==
    \E t \in Tasks :
        /\ tasks[t].cmd = "ask" /\ tasks[t].admitted /\ tasks[t].query = ""
        /\ tasks[t].pc = "done" /\ tasks[t].sends = Sent("usage")

\* C9: an admitted /ask with a non-empty query whose completion call fails
\* sends exactly the one retry-later reply and no part of an answer, and
\* the failure of the call does not leave the handler.
C9_CompletionFailureContained ==
    \A t \in Tasks :
        (tasks[t].cmd = "ask" /\ tasks[t].completion = "failed") =>
            /\ tasks[t].query # ""
            /\ tasks[t].calls = 1
            /\ tasks[t].sends = Sent("retry_later")
            /\ tasks[t].error # "completion"
            /\ tasks[t].pc \in {"retry_reply", "done", "raised"}

C9_Witness ==
    \E t \in Tasks :
        /\ tasks[t].cmd = "ask" /\ tasks[t].completion = "failed"
        /\ tasks[t].pc = "done" /\ tasks[t].sends = Sent("retry_later")

\* C10 (as claimed): no failure leaves an invocation: whatever is raised
\* inside a handler is caught there and answered with an error reply.
C10_NoFailureEscapes ==
    \A t \in Tasks : tasks[t].pc # "raised"

\* The rows of data in record order.
AllRows == [i \in 1..NUM_ROWS |-> i]

\* C11: in every /alert invocation whose alert reply was sent, the three
\* appends are attempted, each once and in record order, whichever of them
\* fail: the rows that failed are among the attempted ones and the attempts
\* go on after them.
C11_AllRowsAttempted ==
    \A t \in Tasks :
        (tasks[t].cmd = "alert" /\ tasks[t].pc = "done"
            /\ tasks[t].sends = Sent("alert")) =>
            /\ tasks[t].rows = AllRows
            /\ tasks[t].failed \subseteq 1..NUM_ROWS

\* C11 witness: the first append failed and all three were attempted.
C11_Witness ==
    \E t \in Tasks :
        /\ tasks[t].cmd = "alert" /\ tasks[t].pc = "done"
        /\ tasks[t].sends = Sent("alert")
        /\ 1 \in tasks[t].failed
        /\ tasks[t].rows = AllRows

\* What slot t's invocation had done before the step: nothing, when the step
\* hands a new invocation to the slot.
PriorCalls(t) == IF Dispatched(t) THEN 0 ELSE tasks[t].calls

PriorRows(t) == IF Dispatched(t) THEN 0 ELSE Len(tasks[t].rows)

\* C12 (as claimed): an external call is a suspension point: the segment
\* that issues the completion call, or a log append, ends there with the
\* invocation suspended (other invocations may step before its outcome is
\* acted on), so that segment sends no reply, issues no second call and does
\* not end the invocation.
C12_ExternalCallsSuspend ==
    [][\A t \in Tasks :
         /\ tasks'[t].calls > PriorCalls(t) =>
               /\ ~(tasks'[t].pc \in {"idle", "done", "raised"})
               /\ tasks'[t].sends = << >>
         /\ Len(tasks'[t].rows) > PriorRows(t) =>
               /\ ~(tasks'[t].pc \in {"idle", "done", "raised"})
               /\ Len(tasks'[t].rows) = PriorRows(t) + 1]_vars

\* The concatenation of a sequence of texts.
RECURSIVE concat(_)
concat(texts) == IF texts = << >> THEN << >> ELSE Head(texts) \o concat(Tail(texts))

\* The texts of the replies an answering /ask has sent so far.
Replies(task) == [i \in 1..Len(task.sends) |-> Parts[task.answer][task.sends[i].part]]

\* C13: after a successful completion /ask sends the chunks of
\* split_message(answer) as separate replies in chunk order, none skipped,
\* duplicated or reordered: while the loop runs the replies sent are chunks
\* 1..k, and once the invocation is over every chunk has gone out and the
\* replies concatenated are the answer.
C13_PartsInOrder ==
    \A t \in Tasks :
        (tasks[t].cmd = "ask" /\ tasks[t].completion = "ok") =>
            /\ Len(tasks[t].sends) <= Len(Parts[tasks[t].answer])
            /\ \A i \in 1..Len(tasks[t].sends) : tasks[t].sends[i] = Msg("part", i)
            /\ tasks[t].pc # "part_reply" =>
                  /\ Len(tasks[t].sends) = Len(Parts[tasks[t].answer])
                  /\ concat(Replies(tasks[t])) = AnswerText(tasks[t].answer)

\* C14: for every text s and every positive m, split_message(s, m) returns,
\* its chunks concatenated in order are s, and no chunk is longer than m.
C14_SplitRoundTrip ==
    call.max_len > 0 =>
        /\ call.pc \in {"called", "returned"}
        /\ call.pc = "returned" =>
              /\ concat(call.chunks) = call.text
              /\ \A i \in 1..Len(call.chunks) : Len(call.chunks[i]) <= call.max_len

\* C14 witness: a text cut into a full chunk and a shorter last one.
C14_Witness ==
    /\ call.pc = "returned" /\ call.max_len = 2 /\ Len(call.text) = 3
    /\ Len(call.chunks) = 2
    /\ concat(call.chunks) = call.text

\* C15 (as claimed): split_message fails with an invalid-argument error for
\* every max_len <= 0 and every text, and returns no chunk list then.
C15_NonPositiveLenRaises ==
    (call.max_len <= 0 /\ call.pc \in {"returned", "raised"}) =>
        /\ call.pc = "raised"
        /\ call.error = "ValueError"

\* C16: for every positive max_len, split_message returns no empty chunk,
\* and for the empty text it returns the empty list.
C16_NoEmptyChunk ==
    (call.pc = "returned" /\ call.max_len > 0) =>
        /\ \A i \in 1..Len(call.chunks) : call.chunks[i] # << >>
        /\ call.text = << >> => call.chunks = << >>
        /\ call.text # << >> => call.chunks # << >>

\* C16 witness: a text whose length is a multiple of max_len, cut into full
\* chunks with no empty one after them.
C16_Witness ==
    /\ call.pc = "returned" /\ call.max_len = 2 /\ Len(call.text) = 4
    /\ Len(call.chunks) = 2
    /\ \A i \in 1..Len(call.chunks) : call.chunks[i] # << >>

\* Invocation s is an admitted /ask of user u with an empty query, still
\* being answered.
EmptyAskOf(s, u) ==
    /\ InFlight(s) /\ tasks[s].cmd = "ask" /\ tasks[s].user = u
    /\ tasks[s].admitted /\ tasks[s].query = ""

\* C17: an admitted /ask with an empty query consumes the window: its
\* instant is the user's timestamp when its segment ends, although no
\* completion call is made, and a /ask of the same user that follows less
\* than 30 units later is denied.
C17_EmptyAskConsumesWindow ==
    [][\A t \in Tasks :
         AskDispatched(t) =>
            LET u == tasks'[t].user
                now == tasks'[t].now
            IN  /\ (tasks'[t].admitted /\ tasks'[t].query = "") =>
                      /\ user_last_ask'[u] = now
                      /\ tasks'[t].calls = 0
                /\ (\E s \in Tasks \ {t} :
                       /\ EmptyAskOf(s, u)
                       /\ now - tasks[s].now >= 0
                       /\ now - tasks[s].now < ASK_INTERVAL) =>
                      ~tasks'[t].admitted]_vars

\* C17 witness: an empty /ask admitted at 30 and the same user's next /ask
\* at 40 denied.
C17_Witness ==
    \E s, t \in Tasks :
        /\ s # t /\ EmptyAskOf(s, tasks[t].user)
        /\ tasks[s].now = 30 /\ tasks[s].calls = 0
        /\ tasks[t].cmd = "ask" /\ ~tasks[t].admitted /\ tasks[t].now = 40
        /\ user_last_ask[tasks[t].user] = 30

\* C18: in a /alert invocation the alert reply is sent before the first
\* append is attempted (while the reply is awaited no row has been tried),
\* and append failures never reach the user: once any row has been tried the
\* alert reply is the only message of the invocation, whichever rows failed,
\* and the internal-error message appears only when no row was tried.
C18_AlertReplyBeforeAppends ==
    \A t \in Tasks :
        tasks[t].cmd = "alert" =>
            /\ tasks[t].pc = "alert_reply" =>
                  /\ tasks[t].rows = << >>
                  /\ tasks[t].sends = Sent("alert")
            /\ tasks[t].rows # << >> =>
                  /\ tasks[t].sends = Sent("alert")
                  /\ tasks[t].pc = "done"
                  /\ tasks[t].error = "none"
            /\ (\E i \in 1..Len(tasks[t].sends) :
                   tasks[t].sends[i].kind = "internal_error") =>
                  /\ tasks[t].rows = << >>
                  /\ tasks[t].failed = {}

\* C18 witness: every append failed and the alert reply is the only message.
C18_Witness ==
    \E t \in Tasks :
        /\ tasks[t].cmd = "alert" /\ tasks[t].pc = "done"
        /\ tasks[t].failed = 1..NUM_ROWS
        /\ tasks[t].rows = AllRows
        /\ tasks[t].sends = Sent("alert")

\* Invocation s is an admitted /ask of user u that is still being answered.
AdmittedAskOf(s, u) ==
    /\ InFlight(s) /\ tasks[s].cmd = "ask" /\ tasks[s].user = u
    /\ tasks[s].admitted

\* C19: whatever the interleaving of /start, /ask and /alert, a user's
\* recorded timestamp only moves by 30 units or more, so an admitted /ask is
\* at least 30 units after every admitted /ask of the same user; and no
\* segment of /start or /alert touches the table: such an invocation is
\* served (its reply is sent, never the denial) and the table is unchanged.
C19_AdmissionsSpaced ==
    [][/\ \A u \in DOMAIN user_last_ask' :
             user_last_ask'[u] # last_of(user_last_ask, u) =>
                user_last_ask'[u] - last_of(user_last_ask, u) >= ASK_INTERVAL
       /\ \A t \in Tasks :
             (AskDispatched(t) /\ tasks'[t].admitted) =>
                /\ user_last_ask'[tasks'[t].user] = tasks'[t].now
                /\ \A s \in Tasks \ {t} :
                      AdmittedAskOf(s, tasks'[t].user) =>
                         tasks'[t].now - tasks[s].now >= ASK_INTERVAL
       /\ \A t \in Tasks :
             (tasks'[t] # tasks[t] /\ tasks'[t].cmd \in {"start", "alert"}) =>
                /\ user_last_ask' = user_last_ask
                /\ Dispatched(t) =>
                      /\ tasks'[t].pc \in {"start_reply", "alert_reply"}
                      /\ tasks'[t].sends \in {Sent("welcome"), Sent("alert")}]_vars

\* C19 witness: two admitted /ask of one user being answered together, 31
\* units apart, the later one recorded.
C19_Witness ==
    \E s, t \in Tasks :
        /\ AdmittedAskOf(s, tasks[t].user) /\ AdmittedAskOf(t, tasks[s].user)
        /\ tasks[s].now = 30 /\ tasks[t].now = 61
        /\ user_last_ask[tasks[t].user] = 61

\* ceil(n / MAX_LEN)
ceil_parts(n) == (n + MAX_LEN - 1) \div MAX_LEN

\* C20: an admitted /ask with a non-empty query whose completion succeeds
\* with an answer of length n sends exactly ceil(n / 4096) replies: once the
\* invocation is over that many part replies have been sent; for the empty
\* answer none is sent, and the request has consumed the user's window.
C20_RepliesPerAnswer ==
    \A t \in Tasks :
        (/\ tasks[t].cmd = "ask" /\ tasks[t].admitted /\ tasks[t].query # ""
         /\ tasks[t].completion = "ok" /\ tasks[t].pc # "part_reply") =>
            /\ Len(tasks[t].sends) = ceil_parts(tasks[t].answer)
            /\ tasks[t].answer = 0 =>
                  /\ tasks[t].sends = << >>
                  /\ tasks[t].user \in DOMAIN user_last_ask
                  /\ user_last_ask[tasks[t].user] >= ASK_INTERVAL

====
